---------------------------- MODULE Spec2Model ----------------------------
(***************************************************************************)
(* Job-Agents: the ingestion pipeline of src/job_agent (fetch.py and the   *)
(* job_agent package) as state machines.                                   *)
(*                                                                         *)
(*   Spec         the jobs table under the three adapters' upsert_job      *)
(*   SpecLimiter  one RateLimiter under wait() calls at arbitrary times     *)
(*   SpecBackoff  request_with_backoff calls against an arbitrary upstream  *)
(*   SpecFetch    main() of fetch.py: the requests of the adapters' fetches, *)
(*                the batches upserted inside "with conn:", the checkpoints *)
(*   SpecSearch   open_db, upserts with the job_fts triggers, search_jobs    *)
(*   SpecWriters  two invocations upserting the same URL into one store      *)
(*   SpecNormalize  workday.upsert_job with its optional normalization       *)
(*   SpecCheckpoint  fetch_greenhouse while the clock runs                   *)
(*                                                                         *)
(* Text is a sequence of characters (one-character strings, or longer      *)
(* glyphs standing for a run of non-blank characters); SP is a blank.      *)
(* Python's None and SQL's NULL are the value NULL.                        *)
(***************************************************************************)
EXTENDS Integers, Sequences, FiniteSets, TLC

VARIABLES
    jobs,       \* the rows of table jobs (core.py DDL), as a set of records
    clock,      \* what datetime.now(timezone.utc) returns
    upserted,   \* history: each identity key an adapter has bound to its INSERT,
                \* with the time of the first such call
    last,       \* history: the latest upsert_job call, and what it mapped its record to
    lim,        \* a RateLimiter: min_gap, and _next_at as the time left until it
                \* (next_in = max(0, _next_at - time.monotonic())); history: the time
                \* since wait() last returned and the gap between its last two returns
    rq,         \* a request_with_backoff call: its place in the loop, its arguments
                \* and locals; history: the delays it slept and what it was answered
    fs,         \* where fetch.py's main() is, with the locals of the fetch function
                \* it is in
    http,       \* history: the latest HTTP attempt
    res,        \* history: how the latest fetch of a source ended
    reg,        \* registry.yaml: the number of sources of each kind
    ses,        \* fetch_greenhouse's state mapping and the state file, the batch
                \* being upserted inside "with conn:" and the table as it was
                \* when that transaction began; history: the sources fetched
    fts,        \* whether open_db has run, whether job_fts and its triggers exist,
                \* and the full-text index: for each rowid the terms indexed
    sr,         \* history: the latest search_jobs call and what it returned
    wr,         \* two invocations writing to one store: which connection holds
                \* SQLite's write lock, and where each one is in upsert_job
    nz          \* whether job_agent.normalize can be imported and the jobs table
                \* has the derived columns, and those columns of one workday row;
                \* history: what they held before the latest upsert_job

storeVars == <<jobs, clock, upserted, last>>
netVars == <<lim, rq>>
fetchVars == <<fs, http, res, reg, ses>>
searchVars == <<fts, sr>>
writerVars == <<wr>>
derivedVars == <<nz>>
vars == <<jobs, clock, upserted, last, lim, rq, fs, http, res, reg, ses, fts, sr, wr, nz>>

----------------------------------------------------------------------------
(* Bounds of the model *)

\* The wall clock runs from 0 to MaxTime.
MaxTime == 1

\* time.sleep(d) returns after d to d + MaxOversleep seconds.
MaxOversleep == 1

\* The time since wait() last returned is measured up to MaxIdle seconds, more
\* than any min_gap used here.
MaxIdle == 8

\* The upstream fails a request at most MaxRetries times in a row.
MaxRetries == 6

\* request_with_backoff, as the adapters call it in SpecFetch, retries at most
\* MaxFetchRetries times.
MaxFetchRetries == 2

\* registry.yaml lists at most MaxSources sources in all.
MaxSources == 2

\* workday.fetch_jobs is called with page_limit = PageLimit and
\* max_pages = MaxPages (50 and 40 by default).
PageLimit == 2
MaxPages == 3

----------------------------------------------------------------------------
(* Python values and string helpers *)

NULL == <<"NULL">>
SP == " "

\* Python truthiness of an optional string: None and "" are falsy.
Truthy(s) == s # NULL /\ s # <<>>

\* a or b
PyOr(a, b) == IF Truthy(a) THEN a ELSE b

RECURSIVE LStrip(_)
LStrip(s) == IF s # <<>> /\ Head(s) = SP THEN LStrip(Tail(s)) ELSE s

RECURSIVE RStrip(_)
RStrip(s) == IF s # <<>> /\ s[Len(s)] = SP THEN RStrip(SubSeq(s, 1, Len(s) - 1)) ELSE s

\* str.strip()
Strip(s) == RStrip(LStrip(s))

RECURSIVE Squeeze(_)
Squeeze(s) ==
    IF Len(s) < 2 THEN s
    ELSE IF s[1] = SP /\ s[2] = SP THEN Squeeze(Tail(s))
    ELSE <<Head(s)>> \o Squeeze(Tail(s))

\* " ".join(s.split())
CollapseWs(s) == Squeeze(Strip(s))

----------------------------------------------------------------------------
(* core.py: timestamps *)

\* s.replace("Z", "+00:00")
ReplaceZ(s) == [i \in DOMAIN s |-> IF s[i] = "Z" THEN "+00:00" ELSE s[i]]

\* The date-and-time texts datetime.fromisoformat accepts, among those used here.
IsoDateTimes == {"1970-01-01T00:00:01", "1970-01-01T00:00:02"}

\* datetime.fromisoformat(t) succeeds: a date-time, with or without a UTC offset.
IsoParseable(t) ==
    \/ Len(t) = 1 /\ t[1] \in IsoDateTimes
    \/ Len(t) = 2 /\ t[1] \in IsoDateTimes /\ t[2] = "+00:00"

\* _parse_iso(s), then .isoformat() of what it parsed: NULL when s is falsy or
\* does not parse, else the text with its offset written "+00:00".
ParseIsoText(s) ==
    IF ~Truthy(s) THEN NULL
    ELSE IF IsoParseable(ReplaceZ(s)) THEN ReplaceZ(s)
    ELSE NULL

----------------------------------------------------------------------------
(* The jobs table: core.py DDL, and the INSERT ... ON CONFLICT statement     *)
(* the three adapters share                                                 *)

\* hashlib.md5(url.encode("utf-8")).hexdigest(): a fingerprint of the URL text
\* alone, taken to be collision-free.
Md5(url) == <<"md5">> \o url

\* INTEGER PRIMARY KEY: the next rowid is one more than the largest.
RECURSIVE MaxId(_)
MaxId(tbl) ==
    IF tbl = {} THEN 0
    ELSE LET r == CHOOSE x \in tbl : TRUE
             m == MaxId(tbl \ {r})
         IN  IF r.id > m THEN r.id ELSE m

\* The NOT NULL text columns of the DDL (first_seen_at and last_seen_at are
\* always bound to the time just read from the clock).
NotNullViolated(v) ==
    \/ v.board_token = NULL \/ v.org_name = NULL \/ v.title = NULL
    \/ v.description = NULL \/ v.post_url = NULL \/ v.canonical_key = NULL

\* COALESCE(a, b)
Coalesce(a, b) == IF a # NULL THEN a ELSE b

\* ON CONFLICT(canonical_key) DO UPDATE SET ...: the row after the update.
ConflictUpdateResetsFirstSeen(r, v) ==
    [r EXCEPT !.first_seen_at = v.first_seen_at,
              !.last_seen_at = v.last_seen_at,
              !.title = v.title,
              !.description = v.description,
              !.location = v.location,
              !.posted_at = IF v.posted_at # NULL THEN v.posted_at ELSE r.posted_at]

ConflictUpdate(r, v) ==
    [r EXCEPT !.last_seen_at = v.last_seen_at,
              !.title = v.title,
              !.description = v.description,
              !.location = v.location,
              !.posted_at = Coalesce(v.posted_at, r.posted_at)]

\* The row an INSERT of v creates.
InsertedRow(tbl, v) ==
    [id |-> MaxId(tbl) + 1,
     board_token |-> v.board_token, org_name |-> v.org_name,
     title |-> v.title, description |-> v.description,
     location |-> v.location, post_url |-> v.post_url,
     posted_at |-> v.posted_at,
     first_seen_at |-> v.first_seen_at, last_seen_at |-> v.last_seen_at,
     canonical_key |-> v.canonical_key]

SqlUpsertKeyedPerSource(tbl, v) ==
    IF \E r \in tbl : r.canonical_key = v.canonical_key /\ r.board_token = v.board_token
    THEN {IF r.canonical_key = v.canonical_key /\ r.board_token = v.board_token
          THEN [r EXCEPT !.last_seen_at = v.last_seen_at, !.title = v.title,
                         !.description = v.description, !.location = v.location]
          ELSE r : r \in tbl}
    ELSE tbl \cup {InsertedRow(tbl, v)}

\* conn.execute(INSERT ... ON CONFLICT(canonical_key) DO UPDATE ...) inside
\* try/except sqlite3.DatabaseError: a constraint violation is warned about and
\* leaves the table as it was.
SqlUpsert(tbl, v) ==
    IF NotNullViolated(v) THEN tbl
    ELSE IF \E r \in tbl : r.canonical_key = v.canonical_key
    THEN {IF r.canonical_key = v.canonical_key THEN ConflictUpdate(r, v) ELSE r : r \in tbl}
    ELSE tbl \cup {InsertedRow(tbl, v)}

NoVals ==
    [board_token |-> NULL, org_name |-> NULL, title |-> NULL, description |-> NULL,
     location |-> NULL, post_url |-> NULL, posted_at |-> NULL,
     first_seen_at |-> 0, last_seen_at |-> 0, canonical_key |-> NULL]

\* What an adapter's upsert_job makes of a raw record: it returns before the
\* statement ("skip", with the test that made it return), raises before it
\* ("raise"), or executes it with vals bound ("row").  url is the record's URL
\* as the adapter reads it, <<>> when it has none.
Skipped(url, why) == [out |-> "skip", why |-> why, url |-> url, vals |-> NoVals]
Raised(url) == [out |-> "raise", why |-> "", url |-> url, vals |-> NoVals]
Stored(v) == [out |-> "row", why |-> "", url |-> v.post_url, vals |-> v]

----------------------------------------------------------------------------
(* greenhouse.py: upsert_job *)

\* (j.get("location") or {}).get("name"): the location is absent, or an object
\* with a name; .get on a non-empty string raises AttributeError.
GhLocationRaises(loc) == loc.kind = "string" /\ loc.name # <<>>

GhLocationName(loc) == IF loc.kind = "object" THEN loc.name ELSE NULL

\* The values upsert_job binds to the INSERT, "skip" when it returns before the
\* statement, "raise" when it raises before the statement.
GhUrl(j) == Strip(PyOr(j.absolute_url, <<>>))

GhVals(board_token, org_name, j, now) ==
    LET url == GhUrl(j)
        title == CollapseWs(PyOr(j.title, <<>>))
        loc == Strip(PyOr(GhLocationName(j.location), <<>>))
        desc == Strip(PyOr(j.content, <<>>))
        posted == ParseIsoText(PyOr(j.updated_at, j.created_at))
    IN  [board_token |-> board_token, org_name |-> org_name,
         title |-> title, description |-> desc,
         location |-> PyOr(loc, NULL), post_url |-> url,
         posted_at |-> posted,
         first_seen_at |-> now, last_seen_at |-> now,
         canonical_key |-> Md5(url)]

GhMap(board_token, org_name, j, now) ==
    IF GhUrl(j) = <<>> THEN Skipped(GhUrl(j), "url")
    ELSE IF GhLocationRaises(j.location) THEN Raised(GhUrl(j))
    ELSE Stored(GhVals(board_token, org_name, j, now))

----------------------------------------------------------------------------
(* lever.py: upsert_job *)

\* _first_location(candidate) for a list of location objects: the name of the
\* first one that has a name.
RECURSIVE FirstLocation(_)
FirstLocation(names) ==
    IF names = NULL \/ names = <<>> THEN NULL
    ELSE IF Truthy(Head(names)) THEN Head(names)
    ELSE FirstLocation(Tail(names))

\* The epoch second as isoformat() writes it.
EpochSecondText(n) ==
    CASE n = 1 -> "1970-01-01T00:00:01"
      [] n = 2 -> "1970-01-01T00:00:02"
      [] OTHER -> "1970-01-01T00:00:00"

\* A JSON number is <<"num", n>>; isinstance(ts, (int, float)).
IsNumber(ts) == Len(ts) = 2 /\ ts[1] = "num"

\* 0 and None are falsy.
TruthyTs(ts) == IF IsNumber(ts) THEN ts[2] # 0 ELSE Truthy(ts)

\* ts = createdAt or updatedAt; datetime.fromtimestamp(ts/1000.0, utc).isoformat()
\* when ts is a number, else None.
LvPosted(j) ==
    LET ts == IF TruthyTs(j.createdAt) THEN j.createdAt ELSE j.updatedAt
    IN  IF IsNumber(ts) THEN <<EpochSecondText(ts[2] \div 1000), "+00:00">> ELSE NULL

\* cats = j.get("categories") or {}: an object, or a value of another shape, on
\* which cats.get raises AttributeError once the workplace locations give no name.
LvCategoriesRaise(j) ==
    /\ j.categories.kind = "string"
    /\ ~Truthy(FirstLocation(j.workplaceLocations))

LvCat(j, field) == IF j.categories.kind = "object" THEN j.categories[field] ELSE NULL

LvMap(company, j, now) ==
    LET url == Strip(PyOr(PyOr(j.hostedUrl, j.applyUrl), <<>>))
    IN  IF url = <<>> THEN Skipped(url, "url")
        ELSE IF LvCategoriesRaise(j) THEN Raised(url)
        ELSE LET title == Strip(PyOr(PyOr(j.text, j.title), <<>>))
                 org_name == IF j.categories.kind = "object"
                             THEN PyOr(PyOr(PyOr(LvCat(j, "team"), LvCat(j, "department")), company), company)
                             ELSE company
                 loc == PyOr(PyOr(PyOr(FirstLocation(j.workplaceLocations), LvCat(j, "location")),
                                  j.country), j.location)
                 desc == PyOr(PyOr(j.descriptionPlain, j.description), <<>>)
             IN  Stored([board_token |-> <<"lever:">> \o company, org_name |-> org_name,
                         title |-> title, description |-> Strip(PyOr(desc, <<>>)),
                         location |-> PyOr(loc, NULL), post_url |-> url,
                         posted_at |-> LvPosted(j),
                         first_seen_at |-> now, last_seen_at |-> now,
                         canonical_key |-> Md5(url)])

----------------------------------------------------------------------------
(* workday.py: URL helpers and upsert_job.  A URL is the scheme glyph         *)
(* ("https://"), the host's glyphs, then the path's, query's and fragment's  *)
(* characters.                                                               *)

RECURSIVE TakeUntil(_, _)
TakeUntil(s, stops) ==
    IF s = <<>> \/ Head(s) \in stops THEN <<>>
    ELSE <<Head(s)>> \o TakeUntil(Tail(s), stops)

DropLen(s, n) == SubSeq(s, n + 1, Len(s))

\* urlsplit(u): scheme, netloc and path
UrlScheme(u) == IF u # <<>> /\ Head(u) = "https://" THEN <<Head(u)>> ELSE <<>>

UrlNetloc(u) ==
    IF UrlScheme(u) = <<>> THEN <<>> ELSE TakeUntil(Tail(u), {"/", "?", "#"})

UrlPath(u) ==
    LET rest == DropLen(u, Len(UrlScheme(u)) + Len(UrlNetloc(u)))
    IN  TakeUntil(rest, {"?", "#"})

\* str.lower() on the host glyphs used here
LowerGlyph(c) == IF c = "X.CO" THEN "x.co" ELSE c

Lower(s) == [i \in DOMAIN s |-> LowerGlyph(s[i])]

RECURSIVE RStripSlash(_)
RStripSlash(s) ==
    IF s # <<>> /\ s[Len(s)] = "/" THEN RStripSlash(SubSeq(s, 1, Len(s) - 1)) ELSE s

\* _base_root(cxs_url): urlunsplit((scheme, netloc, "", "", ""))
BaseRoot(cxs_url) == UrlScheme(cxs_url) \o UrlNetloc(cxs_url)

\* _normalize_url(u): lower-cased host, no trailing slash, no query, no fragment
NormalizeUrl(u) == UrlScheme(u) \o Lower(UrlNetloc(u)) \o RStripSlash(UrlPath(u))

\* subtitles[0].get("title").strip() when subtitles is a non-empty list of
\* objects; .strip() on a missing title raises AttributeError.
WdSubtitleRaises(sub) == sub.kind = "list" /\ sub.title = NULL

WdSubtitle(sub) == IF sub.kind = "list" THEN Strip(sub.title) ELSE <<>>

\* The INSERT of workday.upsert_job.  The UPDATE that follows it (role_level,
\* work_type, ...) does not run in the package as it is: "from .normalize import
\* normalize_fields" names a module the package does not hold (the file is
\* normalizer.py), the ImportError is caught by "except Exception: pass", and
\* the DDL has none of those columns.  SpecNormalize has the UPDATE.
\* The public URL upsert_job builds from the record's relative path: <<>> when
\* the record has none.
WdUrl(endpoint_label, rec) ==
    LET external_path == PyOr(PyOr(rec.externalPath, rec.externalUrlPath), <<>>)
    IN  IF external_path = <<>> THEN <<>>
        ELSE NormalizeUrl(BaseRoot(endpoint_label) \o external_path)

WdMap(endpoint_label, rec, now) ==
    LET title == Strip(PyOr(rec.title, <<>>))
        url == WdUrl(endpoint_label, rec)
    IN  IF title = <<>> THEN Skipped(url, "title")
        ELSE IF WdSubtitleRaises(rec.subtitles) THEN Raised(url)
        ELSE LET org_name == PyOr(WdSubtitle(rec.subtitles), endpoint_label)
                 location == Strip(PyOr(PyOr(rec.locationsText, rec.location), <<>>))
                 posted_at == PyOr(PyOr(rec.postedOn, rec.postedDate), rec.createdOn)
             IN  IF url = <<>> THEN Skipped(url, "url")
                 ELSE Stored([board_token |-> <<"workday:">> \o endpoint_label,
                              org_name |-> org_name,
                              title |-> title, description |-> <<>>,
                              location |-> PyOr(location, NULL), post_url |-> url,
                              posted_at |-> posted_at,
                              first_seen_at |-> now, last_seen_at |-> now,
                              canonical_key |-> Md5(url)])

----------------------------------------------------------------------------
(* core.py: RateLimiter.  Time is in seconds and kept relative to the        *)
(* current time.monotonic(): the limiter holds next_in, the time left until  *)
(* _next_at (0 once _next_at has passed), which is all wait() reads of it.   *)

Max(a, b) == IF a >= b THEN a ELSE b
Min(a, b) == IF a <= b THEN a ELSE b

\* RateLimiter(rate_per_min): min_gap = 60.0 / rate_per_min, _next_at = 0.0.
\* since_ret is -1 until wait() has returned once, last_gap -1 until twice.
NewLimiter(rate_per_min) ==
    [min_gap |-> 60 \div rate_per_min, next_in |-> 0, since_ret |-> -1, last_gap |-> -1]

\* d seconds pass.
Elapsed(l, d) ==
    [l EXCEPT !.next_in = Max(0, l.next_in - d),
              !.since_ret = IF l.since_ret = -1 THEN -1 ELSE Min(MaxIdle, l.since_ret + d)]

\* The time wait() takes: nothing when now >= _next_at, else the sleep until
\* _next_at, which oversleeps by e.
WaitTime(l, e) == IF l.next_in > 0 THEN l.next_in + e ELSE 0

\* wait(): now = time.monotonic(); sleep(_next_at - now) if now < _next_at;
\* _next_at = max(_next_at, now) + min_gap.  The state at its return.
LimiterWait(l, e) ==
    [min_gap |-> l.min_gap,
     next_in |-> Max(0, l.next_in + l.min_gap - WaitTime(l, e)),
     since_ret |-> 0,
     last_gap |-> IF l.since_ret = -1 THEN -1 ELSE Min(MaxIdle, l.since_ret + WaitTime(l, e))]

----------------------------------------------------------------------------
(* core.py: request_with_backoff *)

max_backoff == 16
initial_backoff == 1

RetryStatuses == {429, 500, 502, 503, 504}
Statuses == {200, 304, 400, 404, 405} \cup RetryStatuses

\* A Retry-After header: absent, or a text with what str.isdigit() and float()
\* make of it: "3", "30", "2.0" (a number, but not all digits) and an HTTP date.
NoRetryAfter == [present |-> FALSE, isdigit |-> FALSE, numeric |-> FALSE, seconds |-> 0]
RetryAfters ==
    {NoRetryAfter,
     [present |-> TRUE, isdigit |-> TRUE, numeric |-> TRUE, seconds |-> 3],
     [present |-> TRUE, isdigit |-> TRUE, numeric |-> TRUE, seconds |-> 30],
     [present |-> TRUE, isdigit |-> FALSE, numeric |-> TRUE, seconds |-> 2],
     [present |-> TRUE, isdigit |-> FALSE, numeric |-> FALSE, seconds |-> 0]}

\* What one client.request can come to: httpx.RequestError, or a response.
TransportError == [kind |-> "error", status |-> 0, retry_after |-> NoRetryAfter]
Response(status, ra) == [kind |-> "response", status |-> status, retry_after |-> ra]
Outcomes ==
    {TransportError}
    \cup {Response(st, ra) : st \in RetryStatuses, ra \in RetryAfters}
    \cup {Response(st, NoRetryAfter) : st \in Statuses \ RetryStatuses}

IsRetryOnlyServerErrors(o) == o.kind = "error" \/ o.status \in {500, 502, 503, 504}

\* "except httpx.RequestError" and "if r.status_code in (429, 500, 502, 503, 504)"
IsRetry(o) == o.kind = "error" \/ o.status \in RetryStatuses

\* History: 1 for a response whose status is none of 429, 500, 502, 503, 504.
AnswersFinally(o) ==
    IF o.kind = "response" /\ o.status \notin {429, 500, 502, 503, 504} THEN 1 ELSE 0

\* History: no attempt of the call has been answered yet.
NoAnswer == [kind |-> "none", status |-> 0, retry_after |-> NoRetryAfter]

NoRequest ==
    [pc |-> "idle", limiter |-> FALSE, backoff |-> 0, attempts |-> 0, retries |-> 0,
     waited |-> FALSE, prev_delay |-> -1, last_delay |-> -1, only503 |-> TRUE,
     retry_after_seen |-> FALSE, final_seen |-> 0, status |-> 0,
     answer |-> NoAnswer, backoff_was |-> 0]

\* The call's entry: backoff = 1.0; max_backoff = 16.0.
NewRequest(limiter) == [NoRequest EXCEPT !.pc = "loop", !.limiter = limiter,
                                         !.backoff = initial_backoff]

RetryDelayHeaderAlone(backoff, o) ==
    IF o.kind = "response" /\ o.retry_after.present /\ o.retry_after.isdigit
    THEN o.retry_after.seconds
    ELSE backoff

\* The time slept before the retry that follows outcome o.
RetryDelay(backoff, o) ==
    IF o.kind = "response" /\ o.retry_after.present /\ o.retry_after.isdigit
    THEN Max(o.retry_after.seconds, backoff)
    ELSE backoff

NextBackoffUncapped(backoff) == backoff * 2

NextBackoff(backoff) == Min(max_backoff, backoff * 2)

\* One turn of "while True": limiter.wait() when a limiter was passed, the
\* request, then either the sleep and the doubled backoff, or the return of r.
RqTurn(r, o) ==
    IF IsRetry(o)
    THEN [r EXCEPT !.attempts = r.attempts + 1, !.retries = r.retries + 1,
                   !.waited = r.limiter,
                   !.prev_delay = r.last_delay,
                   !.answer = o, !.backoff_was = r.backoff,
                   !.last_delay = RetryDelay(r.backoff, o),
                   !.only503 = r.only503 /\ o.status = 503,
                   !.retry_after_seen = r.retry_after_seen \/
                        (o.kind = "response" /\ o.retry_after.present /\ o.retry_after.isdigit),
                   !.backoff = NextBackoff(r.backoff),
                   !.status = o.status,
                   !.final_seen = r.final_seen + AnswersFinally(o)]
    ELSE [r EXCEPT !.pc = "done", !.attempts = r.attempts + 1,
                   !.waited = r.limiter, !.status = o.status,
                   !.final_seen = r.final_seen + AnswersFinally(o)]

\* The limiter after that turn: its wait(), then the time the sleep took.
LimTurn(r, l, o, e) ==
    LET l1 == IF r.limiter THEN LimiterWait(l, e) ELSE Elapsed(l, 0)
    IN  IF IsRetry(o) THEN Elapsed(l1, RetryDelay(r.backoff, o) + e) ELSE l1

----------------------------------------------------------------------------
(* fetch.py and the adapters' fetch functions: the state of one invocation  *)

\* main(): --rate, "Requests per minute (default 30)"
default_rate == 30

\* registry.yaml as main() reads it: how many tokens, companies and endpoints
\* the three lists hold, blank entries (which the loops pass over) left out.
NoSources == [greenhouse |-> 0, lever |-> 0, workday |-> 0]
Registries ==
    {r \in [greenhouse : 0..MaxSources, lever : 0..MaxSources, workday : 0..MaxSources] :
        r.greenhouse + r.lever + r.workday <= MaxSources}

\* Where main() is: pc is the statement it is at, left the entries its
\* "for" loop has not reached yet, and page, offset, all_posts the locals of
\* workday.fetch_jobs (the turn of "for _ in range(max_pages)", offset,
\* all_posts); history: pages, the offset asked and the number of records got
\* for each page of that call so far, posted, the number of POSTs of that call,
\* and sent, its latest request with what it was answered (status 0: no
\* response), after the request before it when it is a GET.
AtMain ==
    [pc |-> "main_gh", left |-> 0, page |-> 0, offset |-> 0, all_posts |-> <<>>,
     pages |-> <<>>, posted |-> 0, sent |-> <<>>]

\* History: the latest HTTP attempt and whether a wait() came before it; src,
\* the source it was made for; waiter, the source of the latest wait() on the
\* limiter; held_by, the source whose wait() had set the _next_at this
\* attempt's wait() slept until (NoOne when it did not sleep).
NoOne == <<"none", 0>>
NoAttempt ==
    [what |-> "none", waited |-> FALSE, offset |-> 0, src |-> NoOne, waiter |-> NoOne,
     held_by |-> NoOne]

\* History: how the latest fetch of a source ended for fetch.py, with the
\* records it returned or what it raised.
NoResult ==
    [src |-> "none", out |-> "none", cause |-> "", status |-> 0, posts |-> <<>>,
     pages |-> <<>>]
Fetched(src, status, posts, pages) ==
    [src |-> src, out |-> "ok", cause |-> "", status |-> status, posts |-> posts,
     pages |-> pages]
Failed(src, cause, status, pages) ==
    [src |-> src, out |-> "error", cause |-> cause, status |-> status, posts |-> <<>>,
     pages |-> pages]

\* load_state() / save_state(state): token -> state[token]["last_fetch"], NULL
\* for a token the mapping does not hold.  A state file is empty, or holds what
\* an earlier invocation saved for every board.
LastFetch(t) == <<"last_fetch", t>>
NoCheckpoints == [t \in 1..MaxSources |-> NULL]
SavedStates == {NoCheckpoints, [t \in 1..MaxSources |-> LastFetch(-1)]}

\* state, saved: the mapping in fetch_greenhouse and the one in the file;
\* token: the board of the current turn of "for token in tokens"; todo: the
\* records "for j in jobs" has not reached; undo: the table when "with conn:"
\* was entered; history: tried, the number of sources of each kind whose fetch
\* function was called, and unmodified, the boards whose job-list request was
\* answered 304, each with whether the table was the same after its turn, and
\* upto, the number of records of the batch upsert_job had returned for when
\* an exception left "with conn:", prior, the state file as the invocation
\* found it, fetched, the boards whose gh_fetch_jobs returned, calls, the
\* upsert_job calls made for the source the loop is at, and sent_at, the time
\* the latest job-list request of a board was sent.
NoSession ==
    [state |-> NoCheckpoints, saved |-> NoCheckpoints, token |-> 0, todo |-> <<>>,
     undo |-> {}, tried |-> NoSources, unmodified |-> {}, upto |-> 0,
     prior |-> NoCheckpoints, fetched |-> {}, calls |-> 0, sent_at |-> 0]

\* No store has been opened, and no search made.
NoStore == [opened |-> FALSE, made |-> FALSE, idx |-> {}]
NoSearch ==
    [q |-> <<>>, loc |-> NULL, limit |-> 0, path |-> "none", available |-> FALSE,
     out |-> "none", rows |-> <<>>, views |-> <<>>]

\* No connection holds the write lock, and neither invocation has reached
\* upsert_job: pc is where it is, rec and now the record and the time read by
\* upsert_job; history: dropped, whether its statement failed.
Writers == {1, 2}
NoWriters ==
    [lock |-> 0,
     of |-> [w \in Writers |-> [pc |-> "idle", rec |-> NULL, now |-> 0, dropped |-> FALSE]]]

\* A row without derived columns, and a package without normalize.py.
NoDerived == [installed |-> FALSE, row |-> <<>>, was |-> <<>>]

FetchIdle ==
    /\ fs = AtMain
    /\ http = NoAttempt
    /\ res = NoResult
    /\ ses \in {[NoSession EXCEPT !.saved = m, !.prior = m] : m \in SavedStates}
    /\ fts = NoStore
    /\ sr = NoSearch
    /\ wr = NoWriters
    /\ nz = NoDerived

\* httpx.Response.raise_for_status() on a 4xx or 5xx
RaisesForStatus(status) == status >= 400

\* What the upstream can answer to each request.  Only the job-list request
\* is conditional (If-Modified-Since), so only it can be answered 304.
Answers(what) ==
    {TransportError, Response(503, NoRetryAfter), Response(429, NoRetryAfter),
     Response(200, NoRetryAfter), Response(404, NoRetryAfter)}
    \cup (IF what = "gh_jobs" THEN {Response(304, NoRetryAfter)} ELSE {})
    \cup (IF what \in {"wd_post", "wd_get"}
          THEN {Response(400, NoRetryAfter), Response(405, NoRetryAfter)} ELSE {})

----------------------------------------------------------------------------
(* The raw records the adapters are given: every field is of the shape the  *)
(* platform documents (a location or categories object, a list of subtitle  *)
(* objects), present or absent, blank or not.                               *)

UrlA == <<"https://", "x.co", "/", "a">>

T1Z == <<"1970-01-01T00:00:01", "Z">>
T2Z == <<"1970-01-01T00:00:02", "Z">>
T1 == <<"1970-01-01T00:00:01", "+00:00">>
T2 == <<"1970-01-01T00:00:02", "+00:00">>

NoLoc == [kind |-> "null", name |-> NULL]
\* fetch.py's arguments to the three upsert_job: a board token with the name
\* fetch_board_name gave, a company slug, a cxs endpoint.
GhBoard == <<"acme">>
GhOrg == <<"Acme">>
LvCompany == <<"co">>
WdEndpoint == <<"https://", "X.CO", "/", "wday", "/", "jobs">>

\* The records of each adapter are a plain one (Base) and those that differ
\* from it in the URL, in the content or in the timestamps.
GhUrls == {NULL, <<SP>>, <<SP>> \o UrlA \o <<SP>>}
GhContents ==
    {[title |-> <<SP, "Dev", SP, SP, "Ops">>,
      location |-> [kind |-> "object", name |-> <<"NYC", SP>>],
      content |-> <<"d1">>],
     [title |-> NULL, location |-> NoLoc, content |-> NULL]}
GhStamps ==
    {[updated_at |-> NULL, created_at |-> NULL],
     [updated_at |-> <<"yesterday">>, created_at |-> T1Z],
     [updated_at |-> T2Z, created_at |-> T1Z],
     [updated_at |-> NULL, created_at |-> T1]}
GhBase ==
    [absolute_url |-> UrlA, title |-> <<"Dev", SP, "Ops">>,
     location |-> [kind |-> "object", name |-> <<"NYC">>], content |-> <<"d1">>,
     updated_at |-> T2Z, created_at |-> T1Z]
GhRecords ==
    {[GhBase EXCEPT !.absolute_url = u] : u \in GhUrls}
    \cup {[GhBase EXCEPT !.title = c.title, !.location = c.location,
                         !.content = c.content] : c \in GhContents}
    \cup {[GhBase EXCEPT !.updated_at = t.updated_at,
                         !.created_at = t.created_at] : t \in GhStamps}

NoCats == [kind |-> "null", team |-> NULL, department |-> NULL, location |-> NULL]
LvUrls ==
    {[hostedUrl |-> NULL, applyUrl |-> NULL],
     [hostedUrl |-> <<SP>>, applyUrl |-> UrlA],
     [hostedUrl |-> NULL, applyUrl |-> UrlA \o <<SP>>]}
LvContents ==
    {[text |-> NULL, title |-> <<"QA">>,
      categories |-> NoCats,
      workplaceLocations |-> NULL, country |-> NULL, location |-> NULL,
      descriptionPlain |-> NULL, description |-> NULL]}
LvStamps ==
    {[createdAt |-> NULL, updatedAt |-> NULL],
     [createdAt |-> <<"soon">>, updatedAt |-> <<"num", 2000>>]}
LvBase ==
    [hostedUrl |-> UrlA, applyUrl |-> NULL,
     text |-> <<"Dev", SP, "Ops", SP>>, title |-> NULL,
     categories |-> [kind |-> "object", team |-> <<"Core">>, department |-> NULL,
                     location |-> <<"Remote">>],
     workplaceLocations |-> <<NULL, <<"NYC">>>>, country |-> NULL, location |-> NULL,
     descriptionPlain |-> <<"d1", SP>>, description |-> NULL,
     createdAt |-> <<"num", 1000>>, updatedAt |-> <<"num", 2000>>]
LvRecords ==
    {LvBase}
    \cup {[LvBase EXCEPT !.hostedUrl = u.hostedUrl, !.applyUrl = u.applyUrl] : u \in LvUrls}
    \cup {[LvBase EXCEPT !.text = c.text, !.title = c.title, !.categories = c.categories,
                         !.workplaceLocations = c.workplaceLocations,
                         !.country = c.country, !.location = c.location,
                         !.descriptionPlain = c.descriptionPlain,
                         !.description = c.description] : c \in LvContents}
    \cup {[LvBase EXCEPT !.createdAt = t.createdAt,
                         !.updatedAt = t.updatedAt] : t \in LvStamps}

NoSubtitles == [kind |-> "null", title |-> NULL]
WdPaths ==
    {[externalPath |-> NULL, externalUrlPath |-> NULL],
     [externalPath |-> <<SP>>, externalUrlPath |-> NULL],
     [externalPath |-> NULL, externalUrlPath |-> <<"/", "a", "?", "q">>]}
WdContents ==
    {[title |-> <<SP>>, subtitles |-> NoSubtitles, locationsText |-> NULL, location |-> NULL],
     [title |-> <<"Dev", SP, "Ops">>, subtitles |-> [kind |-> "list", title |-> <<"Core">>],
      locationsText |-> NULL, location |-> <<SP>>]}
WdStamps ==
    {[postedOn |-> NULL, postedDate |-> NULL, createdOn |-> NULL],
     [postedOn |-> <<"Posted", SP, "Today">>, postedDate |-> NULL, createdOn |-> NULL],
     [postedOn |-> NULL, postedDate |-> NULL, createdOn |-> <<>>]}
WdBase ==
    [title |-> <<"QA", SP>>, subtitles |-> [kind |-> "list", title |-> <<"Core", SP>>],
     locationsText |-> NULL, location |-> NULL,
     postedOn |-> NULL, postedDate |-> T1, createdOn |-> T2,
     externalPath |-> <<"/", "a", "/">>, externalUrlPath |-> NULL]
WdRecords ==
    {WdBase}
    \cup {[WdBase EXCEPT !.externalPath = u.externalPath,
                         !.externalUrlPath = u.externalUrlPath] : u \in WdPaths}
    \cup {[WdBase EXCEPT !.title = c.title, !.subtitles = c.subtitles,
                         !.locationsText = c.locationsText,
                         !.location = c.location] : c \in WdContents}
    \cup {[WdBase EXCEPT !.postedOn = t.postedOn, !.postedDate = t.postedDate,
                         !.createdOn = t.createdOn] : t \in WdStamps}

----------------------------------------------------------------------------
(* What the upstreams hold, for the fetch functions *)

\* The job lists a board or a postings endpoint answers a 200 with.
\* A record of another posting, and one whose location (categories) is a
\* string where the adapter expects an object.
UrlB == <<"https://", "x.co", "/", "b">>
UrlC == <<"https://", "x.co", "/", "c">>
GhOther == [GhBase EXCEPT !.absolute_url = UrlB]
GhOddLocation ==
    [GhBase EXCEPT !.absolute_url = UrlC, !.location = [kind |-> "string", name |-> <<"NYC">>]]
GhNoUrl == [GhBase EXCEPT !.absolute_url = NULL]
GhBatches ==
    {<<>>, <<GhBase>>, <<GhBase, GhNoUrl, GhOther>>, <<GhBase, GhOddLocation, GhOther>>}

LvOther == [LvBase EXCEPT !.hostedUrl = UrlB]
LvOddCategories ==
    [LvBase EXCEPT !.hostedUrl = UrlC, !.workplaceLocations = <<>>,
                   !.categories = [kind |-> "string", team |-> NULL, department |-> NULL,
                                   location |-> NULL]]
LvNoUrl == [LvBase EXCEPT !.hostedUrl = NULL]
LvBatches ==
    {<<>>, <<LvBase>>, <<LvBase, LvNoUrl, LvOther>>, <<LvBase, LvOddCategories, LvOther>>}

\* The k-th posting of a paginated-search endpoint; the page at an offset is
\* the postings that follow it, as many of them as the endpoint gives.
Glyphs == <<"a", "b", "c", "d", "e", "f", "g", "h", "i", "j", "k", "l">>
WdListing(k) == [WdBase EXCEPT !.externalPath = <<"/", Glyphs[k]>>]
WdPageAt(offset, n) == [i \in 1..n |-> WdListing(offset + i)]

----------------------------------------------------------------------------
(* Spec: the jobs table under upsert_job calls of the three adapters         *)

\* History: what the raw record holds where the adapter reads its URL (or
\* relative path) and its timestamp: blank when the URL is missing or blank,
\* no_stamp when the timestamp is absent or no ISO date-time; from_update and
\* from_create, the time its update and its create timestamp each stand for
\* (NULL when absent or unreadable).
GhRaw(j) ==
    [blank |-> Strip(PyOr(j.absolute_url, <<>>)) = <<>>,
     no_stamp |-> ParseIsoText(PyOr(j.updated_at, j.created_at)) = NULL,
     from_update |-> ParseIsoText(j.updated_at),
     from_create |-> ParseIsoText(j.created_at)]

LvRaw(j) ==
    [blank |-> Strip(PyOr(PyOr(j.hostedUrl, j.applyUrl), <<>>)) = <<>>,
     no_stamp |-> LET ts == IF TruthyTs(j.createdAt) THEN j.createdAt ELSE j.updatedAt
                  IN  ~IsNumber(ts),
     from_update |-> LvPosted([j EXCEPT !.createdAt = NULL]),
     from_create |-> LvPosted([j EXCEPT !.updatedAt = NULL])]

WdRaw(rec) ==
    [blank |-> Strip(PyOr(PyOr(rec.externalPath, rec.externalUrlPath), <<>>)) = <<>>,
     no_stamp |-> ParseIsoText(PyOr(PyOr(rec.postedOn, rec.postedDate), rec.createdOn)) = NULL,
     from_update |-> NULL,
     from_create |-> ParseIsoText(rec.createdOn)]

\* history: the upsert_job call that mapped its record to m
LastCall(src, m, raw) ==
    [src |-> src, out |-> m.out, why |-> m.why, url |-> m.url, vals |-> m.vals,
     blank |-> raw.blank, no_stamp |-> raw.no_stamp,
     from_update |-> raw.from_update, from_create |-> raw.from_create]

\* What one upsert_job call does to the table, given what the adapter mapped.
UpsertEffect(src, m, raw) ==
    /\ jobs' = IF m.out = "row" THEN SqlUpsert(jobs, m.vals) ELSE jobs
    /\ upserted' =
         IF m.out = "row" /\ ~\E u \in upserted : u.key = m.vals.canonical_key
         THEN upserted \cup {[key |-> m.vals.canonical_key, first |-> clock]}
         ELSE upserted
    /\ last' = LastCall(src, m, raw)

ApplyUpsert(src, m, raw) ==
    /\ UpsertEffect(src, m, raw)
    /\ UNCHANGED <<clock, netVars, fetchVars, searchVars, writerVars, derivedVars>>

\* greenhouse.upsert_job(conn, board_token, org_name, j)
GhUpsert(j) == ApplyUpsert("greenhouse", GhMap(GhBoard, GhOrg, j, clock), GhRaw(j))

\* lever.upsert_job(conn, company, j)
LvUpsert(j) == ApplyUpsert("lever", LvMap(LvCompany, j, clock), LvRaw(j))

\* workday.upsert_job(conn, endpoint_label, rec)
WdUpsert(rec) == ApplyUpsert("workday", WdMap(WdEndpoint, rec, clock), WdRaw(rec))

\* Time passes between two calls.
Tick ==
    /\ clock < MaxTime
    /\ clock' = clock + 1
    /\ UNCHANGED <<jobs, upserted, last, netVars, fetchVars, searchVars, writerVars, derivedVars>>

NoCall ==
    [src |-> "none", out |-> "none", why |-> "", url |-> <<>>, vals |-> NoVals,
     blank |-> FALSE, no_stamp |-> FALSE, from_update |-> NULL, from_create |-> NULL]

StoreInit ==
    /\ jobs = {}
    /\ clock = 0
    /\ upserted = {}
    /\ last = NoCall

Init ==
    /\ StoreInit
    /\ lim = NewLimiter(default_rate)
    /\ rq = NoRequest
    /\ FetchIdle
    /\ ses = NoSession
    /\ reg = NoSources

Next ==
    \/ \E j \in GhRecords : GhUpsert(j)
    \/ \E j \in LvRecords : LvUpsert(j)
    \/ \E rec \in WdRecords : WdUpsert(rec)
    \/ Tick

Spec == Init /\ [][Next]_vars

----------------------------------------------------------------------------
(* Claims about the jobs table (checked under Spec) *)

HasRow(k) == \E r \in jobs : r.canonical_key = k
RowOf(k) == CHOOSE r \in jobs : r.canonical_key = k
RowsWithUrl(url) == {r \in jobs : r.post_url = url}

\* C1, as stated: after an upsert_job call on a raw record with a usable URL,
\* whichever the adapter, exactly one row is stored for that URL.
C1_AnyUsableUrlIsStored ==
    (last.src # "none" /\ last.url # <<>>) => Cardinality(RowsWithUrl(last.url)) = 1

\* C1, amended: a record with a usable URL is left out only by the
\* paginated-search adapter and only for its blank title; every record an
\* adapter does upsert has exactly one row, whose first_seen_at is the time of
\* the first upsert of its key and, right after an upsert at time t2, whose
\* last_seen_at is t2; the number of rows is the number of distinct keys upserted.
C1_Idempotent ==
    /\ (last.out = "skip" /\ last.url # <<>>) => (last.src = "workday" /\ last.why = "title")
    /\ Cardinality(jobs) = Cardinality(upserted)
    /\ \A u \in upserted :
         /\ Cardinality({r \in jobs : r.canonical_key = u.key}) = 1
         /\ RowOf(u.key).first_seen_at = u.first
    /\ last.out = "row" =>
         /\ Cardinality(RowsWithUrl(last.url)) = 1
         /\ RowOf(last.vals.canonical_key).last_seen_at = last.vals.last_seen_at

\* A key was upserted at t1 and again at a later t2.
C1_Witness ==
    /\ last.out = "row"
    /\ HasRow(last.vals.canonical_key)
    /\ RowOf(last.vals.canonical_key).first_seen_at < last.vals.last_seen_at
    /\ Cardinality(jobs) = 2

\* C2: rows are identified by their canonical URL alone: the key of a row is
\* the fingerprint of its URL, no two rows carry the same URL, and an upsert by
\* any source of a URL that has a row leaves that URL with this one row.
C2_OneRowPerUrl ==
    /\ \A r \in jobs : r.canonical_key = Md5(r.post_url)
    /\ \A r1, r2 \in jobs : r1.post_url = r2.post_url => r1 = r2
    /\ last.out = "row" => Cardinality(RowsWithUrl(last.vals.post_url)) = 1

\* The latest upsert came from another source than the one that created the
\* row of its URL, and it updated that row.
C2_Witness ==
    /\ last.out = "row"
    /\ \E r \in jobs :
         /\ r.post_url = last.vals.post_url
         /\ r.board_token # last.vals.board_token
         /\ r.last_seen_at = last.vals.last_seen_at
         /\ r.first_seen_at < r.last_seen_at

\* C3: a row that has a posted_at keeps one in every step, and an upsert whose
\* incoming timestamp is absent or unparseable leaves every stored posted_at as
\* it was.
C3_PostedAtKept ==
    [][\A r \in jobs : r.posted_at # NULL =>
         \E r2 \in jobs' :
           /\ r2.canonical_key = r.canonical_key
           /\ r2.posted_at # NULL
           /\ last'.no_stamp => r2.posted_at = r.posted_at]_vars

\* C4, as stated: after an upsert the row of its key carries the incoming
\* title, description, location and organization name, last_seen_at is the time
\* of the call, and posted_at is the incoming one when that is not null.
C4_AllOverwritten ==
    last.out = "row" =>
        LET r == RowOf(last.vals.canonical_key)
        IN  /\ r.title = last.vals.title
            /\ r.description = last.vals.description
            /\ r.location = last.vals.location
            /\ r.org_name = last.vals.org_name
            /\ r.last_seen_at = last.vals.last_seen_at
            /\ last.vals.posted_at # NULL => r.posted_at = last.vals.posted_at

\* C5: no row has an empty canonical URL, and a call on a record whose URL or
\* relative path is missing or blank returns without raising and leaves the
\* table as it was.
C5_NoEmptyUrl ==
    [][/\ \A r \in jobs' : r.post_url # <<>> /\ r.post_url # NULL
       /\ (last'.src # "none" /\ last'.blank) => (last'.out = "skip" /\ jobs' = jobs)]_vars

----------------------------------------------------------------------------
(* SpecLimiter: one RateLimiter, wait() called at arbitrary times *)

Rates == {60, 30, 20, 15, 12, 10}

\* limiter.wait(), from the call to its return
Wait ==
    \E e \in 0..MaxOversleep :
        /\ lim' = LimiterWait(lim, e)
        /\ UNCHANGED <<storeVars, rq, fetchVars, searchVars, writerVars, derivedVars>>

\* A second passes outside wait().
Idle ==
    /\ lim' = Elapsed(lim, 1)
    /\ lim' # lim
    /\ UNCHANGED <<storeVars, rq, fetchVars, searchVars, writerVars, derivedVars>>

LimiterInit ==
    /\ StoreInit
    /\ \E rate \in Rates : lim = NewLimiter(rate)
    /\ rq = NoRequest
    /\ FetchIdle
    /\ ses = NoSession
    /\ reg = NoSources

LimiterNext == Wait \/ Idle

SpecLimiter == LimiterInit /\ [][LimiterNext]_vars

\* C6: the time between two successive returns of wait() is at least min_gap.
C6_MinGapBetweenReturns == lim.last_gap = -1 \/ lim.last_gap >= lim.min_gap

----------------------------------------------------------------------------
(* SpecBackoff: request_with_backoff, called with or without a limiter,     *)
(* against an upstream that answers anything                                *)

\* request_with_backoff(client, method, url, ..., limiter=...) is entered.
BkCall ==
    /\ rq.pc # "loop"
    /\ \E limiter \in BOOLEAN : rq' = NewRequest(limiter)
    /\ UNCHANGED <<storeVars, lim, fetchVars, searchVars, writerVars, derivedVars>>

\* One turn of its loop.
BkTurn ==
    /\ rq.pc = "loop"
    /\ \E o \in Outcomes, e \in 0..MaxOversleep :
        /\ IsRetry(o) => rq.retries < MaxRetries
        /\ rq' = RqTurn(rq, o)
        /\ lim' = LimTurn(rq, lim, o, e)
    /\ UNCHANGED <<storeVars, fetchVars, searchVars, writerVars, derivedVars>>

BackoffNext == BkCall \/ BkTurn \/ Idle

SpecBackoff == Init /\ [][BackoffNext]_vars

\* C8: the call returns the first response whose status is none of 429, 500,
\* 502, 503, 504, at once, and returns no other: while it loops it has had no
\* such response, and when it has returned it has had exactly one, the last
\* one, which is what it returned.
C8_ReturnsFirstFinal ==
    /\ rq.pc = "loop" => rq.final_seen = 0
    /\ rq.pc = "done" =>
         /\ rq.final_seen = 1
         /\ rq.status \notin {429, 500, 502, 503, 504}
         /\ rq.status \in Statuses
         /\ rq.attempts = rq.retries + 1

\* A 304 and a 404 are returned as they are, here after two failed attempts.
C8_Witness ==
    /\ rq.pc = "done"
    /\ rq.status \in {304, 404}
    /\ rq.retries = 2

\* C10, as stated: in a call answered by 503s only, each retry delay is at
\* least the one before and none exceeds 16 seconds, whatever the Retry-After
\* headers.
C10_DelaysMonotoneCapped ==
    (rq.only503 /\ rq.last_delay # -1) =>
        /\ rq.last_delay <= 16
        /\ rq.prev_delay <= rq.last_delay

\* C10, amended: that holds of a call answered by 503s none of which carries
\* a numeric Retry-After header; with one, the delay is the larger of the
\* header and the backoff.  The backoff itself never exceeds 16 seconds.
C10_DelaysMonotoneCappedNoHeader ==
    /\ rq.backoff <= 16
    /\ (rq.only503 /\ ~rq.retry_after_seen /\ rq.last_delay # -1) =>
         /\ rq.last_delay <= 16
         /\ rq.prev_delay <= rq.last_delay
         /\ rq.prev_delay # -1 => rq.last_delay = Min(16, 2 * rq.prev_delay)

\* Six 503s without a numeric Retry-After: the delay has reached the cap and
\* stayed there.
C10_Witness ==
    /\ rq.only503 /\ ~rq.retry_after_seen
    /\ rq.retries >= 6
    /\ rq.prev_delay = 16 /\ rq.last_delay = 16

\* C11, as stated: after a 429/500/502/503/504 response the delay slept is the
\* Retry-After value when the header is present and numeric, and the backoff
\* otherwise; the backoff is then doubled, capped at 16 seconds.
C11_DelayIsRetryAfter ==
    rq.answer.kind = "response" =>
        /\ rq.last_delay = IF rq.answer.retry_after.present /\ rq.answer.retry_after.numeric
                           THEN rq.answer.retry_after.seconds
                           ELSE rq.backoff_was
        /\ rq.backoff = Min(16, 2 * rq.backoff_was)

\* C11, amended: the header counts when it is all digits, and the delay slept
\* is then the larger of its value and the backoff; otherwise it is the
\* backoff.  The backoff is then doubled, capped at 16 seconds.
C11_DelayIsLargerOfRetryAfterAndBackoff ==
    rq.answer.kind = "response" =>
        /\ rq.answer.status \in {429, 500, 502, 503, 504}
        /\ rq.last_delay = IF rq.answer.retry_after.present /\ rq.answer.retry_after.isdigit
                           THEN Max(rq.answer.retry_after.seconds, rq.backoff_was)
                           ELSE rq.backoff_was
        /\ rq.backoff = Min(16, 2 * rq.backoff_was)

\* A response said "Retry-After: 3" when the backoff was 4: 4 seconds were slept.
C11_Witness ==
    /\ rq.answer.kind = "response"
    /\ rq.answer.retry_after.isdigit
    /\ rq.answer.retry_after.seconds < rq.backoff_was
    /\ rq.last_delay = rq.backoff_was

----------------------------------------------------------------------------
(* SpecFetch: one invocation of fetch.py's main(), down to the requests of  *)
(* the adapters' fetch functions and what they return or raise              *)

\* "if gh_tokens: fetch_greenhouse(gh_tokens, args.rate)", up to its loop:
\* state = load_state(), limiter = RateLimiter(rate_per_min=rate)
MainGreenhouse ==
    /\ fs.pc = "main_gh"
    /\ IF reg.greenhouse > 0
       THEN /\ fs' = [fs EXCEPT !.pc = "gh_next", !.left = reg.greenhouse]
            /\ lim' = NewLimiter(default_rate)
            /\ ses' = [ses EXCEPT !.state = ses.saved]
       ELSE /\ fs' = [fs EXCEPT !.pc = "main_lv"]
            /\ lim' = lim
            /\ ses' = ses
    /\ UNCHANGED <<storeVars, rq, http, res, reg, searchVars, writerVars, derivedVars>>

\* "for token in tokens": gh_fetch_board_name(client, token) is called, which
\* calls request_with_backoff without a limiter; after the last token,
\* save_state(state) and conn.close().
GhNextToken ==
    /\ fs.pc = "gh_next"
    /\ IF fs.left = 0
       THEN /\ fs' = [fs EXCEPT !.pc = "main_lv"]
            /\ rq' = NoRequest
            /\ ses' = [ses EXCEPT !.saved = ses.state, !.token = 0]
       ELSE /\ fs' = [fs EXCEPT !.pc = "gh_board", !.left = fs.left - 1]
            /\ rq' = NewRequest(FALSE)
            /\ ses' = [ses EXCEPT !.token = fs.left, !.calls = 0,
                                  !.tried.greenhouse = ses.tried.greenhouse + 1]
    /\ UNCHANGED <<storeVars, lim, http, res, reg, searchVars, writerVars, derivedVars>>

\* since_hdr: the If-Modified-Since header of the job-list request, made of
\* state[token]["last_fetch"] when the mapping holds one.
SinceHdr == IF ses.token = 0 THEN NULL ELSE ses.state[ses.token]

\* The board token, company or endpoint the loop of the fetch function is at.
Source ==
    IF fs.pc \in {"gh_board", "gh_jobs"} THEN <<"greenhouse", ses.token>>
    ELSE IF fs.pc = "lv_postings" THEN <<"lever", fs.left + 1>>
    ELSE <<"workday", fs.left + 1>>

\* One turn of request_with_backoff's loop, for the adapter that called it.
\* A request without If-Modified-Since is not answered 304.
RequestTurn ==
    /\ fs.pc \in {"gh_board", "gh_jobs", "lv_postings"}
    /\ rq.pc = "loop"
    /\ ses' = IF fs.pc = "gh_jobs" THEN [ses EXCEPT !.sent_at = clock] ELSE ses
    /\ \E o \in Answers(fs.pc), e \in 0..MaxOversleep :
        /\ IsRetry(o) => rq.retries < MaxFetchRetries
        /\ (o.kind = "response" /\ o.status = 304) => SinceHdr # NULL
        /\ rq' = RqTurn(rq, o)
        /\ lim' = LimTurn(rq, lim, o, e)
        /\ http' = [what |-> fs.pc, waited |-> rq.limiter, offset |-> 0,
                    src |-> Source,
                    waiter |-> IF rq.limiter THEN Source ELSE http.waiter,
                    held_by |-> IF rq.limiter /\ WaitTime(lim, e) > 0
                                THEN http.waiter ELSE NoOne]
    /\ UNCHANGED <<storeVars, fs, res, reg, searchVars, writerVars, derivedVars>>

\* fetch_board_name after its request: ValueError on 404, raise_for_status,
\* else the name; fetch_greenhouse prints "[ERROR] board" and continues, or
\* calls gh_fetch_jobs(client, token, since_hdr, limiter).
GhBoardName ==
    /\ fs.pc = "gh_board"
    /\ rq.pc = "done"
    /\ IF rq.status = 404 \/ RaisesForStatus(rq.status)
       THEN /\ res' = Failed("greenhouse",
                             IF rq.status = 404 THEN "not_found" ELSE "status", rq.status,
                             <<>>)
            /\ fs' = [fs EXCEPT !.pc = "gh_next"]
            /\ rq' = NoRequest
       ELSE /\ res' = res
            /\ fs' = [fs EXCEPT !.pc = "gh_jobs"]
            /\ rq' = NewRequest(TRUE)
    /\ UNCHANGED <<storeVars, lim, http, reg, ses, searchVars, writerVars, derivedVars>>

\* A fetch function returned posts: "with conn:" is entered.
BeginBatch(posts) == [ses EXCEPT !.todo = posts, !.undo = jobs]

\* greenhouse.fetch_jobs after its request: [] on 304, raise_for_status, else
\* data.get("jobs", []); fetch_greenhouse prints "[ERROR] jobs" and continues
\* when it raised, and enters "with conn:" with the jobs otherwise.
GhFetchJobs ==
    /\ fs.pc = "gh_jobs"
    /\ rq.pc = "done"
    /\ IF rq.status # 304 /\ RaisesForStatus(rq.status)
       THEN /\ res' = Failed("greenhouse", "status", rq.status, <<>>)
            /\ fs' = [fs EXCEPT !.pc = "gh_next"]
            /\ ses' = ses
       ELSE /\ \E jobs_list \in IF rq.status = 304 THEN {<<>>} ELSE GhBatches :
                /\ res' = Fetched("greenhouse", rq.status, jobs_list, <<>>)
                /\ ses' = [BeginBatch(jobs_list) EXCEPT !.fetched = @ \cup {ses.token}]
            /\ fs' = [fs EXCEPT !.pc = "gh_batch"]
    /\ rq' = NoRequest
    /\ UNCHANGED <<storeVars, lim, http, reg, searchVars, writerVars, derivedVars>>

\* What the upsert_job of the source being fetched maps a record to, and the
\* record's raw facts, with the arguments fetch.py passes.
MapOf(src, rec, now) ==
    IF src = "greenhouse" THEN GhMap(GhBoard, GhOrg, rec, now)
    ELSE IF src = "lever" THEN LvMap(LvCompany, rec, now)
    ELSE WdMap(WdEndpoint, rec, now)

RawOf(src, rec) ==
    IF src = "greenhouse" THEN GhRaw(rec)
    ELSE IF src = "lever" THEN LvRaw(rec)
    ELSE WdRaw(rec)

\* One turn of "for j in jobs: upsert_job(conn, ..., j)" inside "with conn:".
\* An exception upsert_job lets out leaves the "with": the transaction is
\* rolled back, and no handler of fetch.py catches it, so main() ends with it.
UpsertNext ==
    /\ fs.pc \in {"gh_batch", "lv_batch", "wd_batch"}
    /\ ses.todo # <<>>
    /\ LET rec == Head(ses.todo)
           m == MapOf(res.src, rec, clock)
       IN  IF m.out = "raise"
           THEN /\ jobs' = ses.undo
                /\ upserted' = upserted
                /\ last' = LastCall(res.src, m, RawOf(res.src, rec))
                /\ fs' = [fs EXCEPT !.pc = "raised"]
                /\ ses' = [ses EXCEPT !.todo = <<>>, !.calls = @ + 1,
                                      !.upto = Len(res.posts) - Len(ses.todo)]
           ELSE /\ UpsertEffect(res.src, m, RawOf(res.src, rec))
                /\ fs' = fs
                /\ ses' = [ses EXCEPT !.todo = Tail(ses.todo), !.calls = @ + 1]
    /\ UNCHANGED <<clock, netVars, http, res, reg, searchVars, writerVars, derivedVars>>

\* The invocation is cancelled (KeyboardInterrupt) or killed between two
\* records of a batch: the exception leaves "with conn:", which rolls the
\* transaction back, or the process ends with the transaction open, which
\* SQLite discards; main() does not go on.
Interrupt ==
    /\ fs.pc \in {"gh_batch", "lv_batch", "wd_batch"}
    /\ ses.todo # <<>>
    /\ Len(ses.todo) < Len(res.posts)
    /\ jobs' = ses.undo
    /\ fs' = [fs EXCEPT !.pc = "raised"]
    /\ ses' = [ses EXCEPT !.todo = <<>>, !.upto = Len(res.posts) - Len(ses.todo)]
    /\ UNCHANGED <<clock, upserted, last, netVars, http, res, reg, searchVars, writerVars, derivedVars>>

\* The end of "with conn:": the transaction is committed; fetch_greenhouse
\* then sets state[token]["last_fetch"] to the time it reads.
Commit ==
    /\ fs.pc \in {"gh_batch", "lv_batch", "wd_batch"}
    /\ ses.todo = <<>>
    /\ fs' = [fs EXCEPT !.pc = IF fs.pc = "gh_batch" THEN "gh_next"
                               ELSE IF fs.pc = "lv_batch" THEN "lv_next"
                               ELSE "wd_next"]
    /\ ses' = IF fs.pc = "gh_batch"
              THEN [ses EXCEPT !.state[ses.token] = LastFetch(clock), !.undo = {},
                               !.unmodified =
                                   IF res.status = 304
                                   THEN @ \cup {[token |-> ses.token, same |-> jobs = ses.undo]}
                                   ELSE @]
              ELSE [ses EXCEPT !.undo = {}]
    /\ UNCHANGED <<storeVars, netVars, http, res, reg, searchVars, writerVars, derivedVars>>

\* "if lv_companies: fetch_lever(lv_companies, args.rate)", up to its loop
MainLever ==
    /\ fs.pc = "main_lv"
    /\ IF reg.lever > 0
       THEN /\ fs' = [fs EXCEPT !.pc = "lv_next", !.left = reg.lever]
            /\ lim' = NewLimiter(default_rate)
       ELSE /\ fs' = [fs EXCEPT !.pc = "main_wd"]
            /\ lim' = lim
    /\ UNCHANGED <<storeVars, rq, http, res, reg, ses, searchVars, writerVars, derivedVars>>

\* "for company in companies": lever_mod.fetch_jobs(client, company, limiter)
\* is called; after the last company, conn.close().
LvNextCompany ==
    /\ fs.pc = "lv_next"
    /\ IF fs.left = 0
       THEN /\ fs' = [fs EXCEPT !.pc = "main_wd"]
            /\ rq' = NoRequest
            /\ ses' = ses
       ELSE /\ fs' = [fs EXCEPT !.pc = "lv_postings", !.left = fs.left - 1]
            /\ rq' = NewRequest(TRUE)
            /\ ses' = [ses EXCEPT !.tried.lever = ses.tried.lever + 1, !.calls = 0]
    /\ UNCHANGED <<storeVars, lim, http, res, reg, searchVars, writerVars, derivedVars>>

\* lever.fetch_jobs after its request: ValueError on 404, raise_for_status,
\* else the list; fetch_lever prints "[ERROR] lever" and continues when it
\* raised, and enters "with conn:" with the jobs otherwise.
LvFetchJobs ==
    /\ fs.pc = "lv_postings"
    /\ rq.pc = "done"
    /\ IF rq.status = 404 \/ RaisesForStatus(rq.status)
       THEN /\ res' = Failed("lever", IF rq.status = 404 THEN "not_found" ELSE "status",
                             rq.status, <<>>)
            /\ fs' = [fs EXCEPT !.pc = "lv_next"]
            /\ ses' = ses
       ELSE /\ \E jobs_list \in LvBatches :
                /\ res' = Fetched("lever", rq.status, jobs_list, <<>>)
                /\ ses' = BeginBatch(jobs_list)
            /\ fs' = [fs EXCEPT !.pc = "lv_batch"]
    /\ rq' = NoRequest
    /\ UNCHANGED <<storeVars, lim, http, reg, searchVars, writerVars, derivedVars>>

\* "if wd_endpoints: fetch_workday(wd_endpoints, args.rate)", up to its loop;
\* no limiter is made ("rate kept for parity, not used").
MainWorkday ==
    /\ fs.pc = "main_wd"
    /\ fs' = IF reg.workday > 0
             THEN [fs EXCEPT !.pc = "wd_next", !.left = reg.workday]
             ELSE [fs EXCEPT !.pc = "main_end"]
    /\ UNCHANGED <<storeVars, netVars, http, res, reg, ses, searchVars, writerVars, derivedVars>>

\* "for cxs_url in cxs_endpoints": workday_mod.fetch_jobs(client, cxs_url) is
\* entered, all_posts = [], offset = 0; after the last endpoint, conn.close().
WdNextEndpoint ==
    /\ fs.pc = "wd_next"
    /\ IF fs.left = 0
       THEN /\ fs' = [fs EXCEPT !.pc = "main_end"]
            /\ ses' = ses
       ELSE /\ fs' = [fs EXCEPT !.pc = "wd_post", !.left = fs.left - 1, !.posted = 0,
                           !.sent = <<>>]
            /\ ses' = [ses EXCEPT !.tried.workday = ses.tried.workday + 1, !.calls = 0]
    /\ UNCHANGED <<storeVars, netVars, http, res, reg, searchVars, writerVars, derivedVars>>

\* body = {"appliedFacets": {}, "limit": page_limit, "offset": offset,
\* "searchText": search_text or ""}; fetch_workday passes no search_text.
PostBody(offset) ==
    [appliedFacets |-> "{}", limit |-> PageLimit, offset |-> offset, searchText |-> <<>>]

\* params = {"limit": page_limit, "offset": offset, "searchText": search_text or ""}
GetParams(offset) == [limit |-> PageLimit, offset |-> offset, searchText |-> <<>>]

FallsBackOnAnyError(status) == status >= 400

\* "if r.status_code in (400, 405)"
FallsBack(status) == status \in {400, 405}

\* history: the POSTs of the call, once the request that sent ends with is
\* counted
Posted(sent) ==
    IF sent[Len(sent)].what = "wd_post" THEN fs.posted + 1 ELSE fs.posted

\* history: a request of fetch_jobs and what it was answered; a GET is kept
\* with the request before it
Sent(what, query, o) ==
    LET this == [what |-> what, query |-> query,
                 status |-> IF o.kind = "error" THEN 0 ELSE o.status]
    IN  IF what = "wd_get" /\ fs.sent # <<>>
        THEN <<fs.sent[Len(fs.sent)], this>> ELSE <<this>>

WdEndsKeepsPages(result, sent) ==
    LET posts == IF result.out = "ok" THEN result.posts ELSE fs.all_posts
    IN  /\ res' = result
        /\ fs' = [fs EXCEPT !.pc = IF posts # <<>> \/ result.out = "ok"
                                   THEN "wd_batch" ELSE "wd_next",
                            !.page = 0, !.offset = 0, !.all_posts = <<>>, !.pages = <<>>,
                            !.sent = sent, !.posted = Posted(sent)]
        /\ ses' = IF posts # <<>> \/ result.out = "ok" THEN BeginBatch(posts) ELSE ses

\* workday.fetch_jobs raises, or returns all_posts: fetch_workday prints
\* "[ERROR] wd" and continues, or enters "with conn:" with the posts.
WdEnds(result, sent) ==
    /\ res' = result
    /\ fs' = [fs EXCEPT !.pc = IF result.out = "ok" THEN "wd_batch" ELSE "wd_next",
                        !.page = 0, !.offset = 0, !.all_posts = <<>>, !.pages = <<>>,
                        !.sent = sent, !.posted = Posted(sent)]
    /\ ses' = IF result.out = "ok" THEN BeginBatch(result.posts) ELSE ses

NextOffsetByOne(offset) == offset + 1

\* offset += page_limit
NextOffset(offset) == offset + PageLimit

LastTurnOneLater(page) == page = MaxPages

\* "for _ in range(max_pages)": the turn that has run page turns before it is
\* the last one.
LastTurn(page) == page + 1 = MaxPages

\* The rest of a turn of "for _ in range(max_pages)" once r is the page's
\* response: raise_for_status, posts = _extract_posts(r.json()), the two
\* breaks, all_posts.extend(posts), offset += page_limit.
WdPage(status, sent) ==
    IF RaisesForStatus(status)
    THEN WdEnds(Failed("workday", "status", status, fs.pages), sent)
    ELSE \E n \in 0..PageLimit :
            LET posts == WdPageAt(fs.offset, n)
                pages == Append(fs.pages, [offset |-> fs.offset, n |-> n])
            IN  IF n < PageLimit \/ LastTurn(fs.page)
                THEN WdEnds(Fetched("workday", status, fs.all_posts \o posts, pages), sent)
                ELSE /\ fs' = [fs EXCEPT !.pc = "wd_post", !.page = fs.page + 1,
                                         !.offset = NextOffset(fs.offset),
                                         !.all_posts = fs.all_posts \o posts,
                                         !.pages = pages, !.sent = sent,
                                         !.posted = Posted(sent)]
                     /\ res' = res
                     /\ ses' = ses

\* r = client.post(cxs_jobs_url, headers=headers, json=body, timeout=20)
WdPost ==
    /\ fs.pc = "wd_post"
    /\ http' = [http EXCEPT !.what = "wd_post", !.waited = FALSE, !.offset = fs.offset,
                            !.src = Source, !.held_by = NoOne]
    /\ \E o \in Answers("wd_post") :
        LET sent == Sent("wd_post", PostBody(fs.offset), o)
        IN  IF o.kind = "error"
            THEN WdEnds(Failed("workday", "transport", 0, fs.pages), sent)
            ELSE IF FallsBack(o.status)
            THEN /\ fs' = [fs EXCEPT !.pc = "wd_get", !.sent = sent,
                                     !.posted = Posted(sent)]
                 /\ res' = res
                 /\ ses' = ses
            ELSE WdPage(o.status, sent)
    /\ UNCHANGED <<storeVars, netVars, reg, searchVars, writerVars, derivedVars>>

\* r = client.get(cxs_jobs_url, headers=headers, params={...}, timeout=20)
WdGet ==
    /\ fs.pc = "wd_get"
    /\ http' = [http EXCEPT !.what = "wd_get", !.waited = FALSE, !.offset = fs.offset,
                            !.src = Source, !.held_by = NoOne]
    /\ \E o \in Answers("wd_get") :
        LET sent == Sent("wd_get", GetParams(fs.offset), o)
        IN  IF o.kind = "error"
            THEN WdEnds(Failed("workday", "transport", 0, fs.pages), sent)
            ELSE WdPage(o.status, sent)
    /\ UNCHANGED <<storeVars, netVars, reg, searchVars, writerVars, derivedVars>>

\* "if not any([gh_tokens, lv_companies, wd_endpoints])": main() returns.
MainEnd ==
    /\ fs.pc = "main_end"
    /\ fs' = [fs EXCEPT !.pc = "exit"]
    /\ UNCHANGED <<storeVars, netVars, http, res, reg, ses, searchVars, writerVars, derivedVars>>

FetchInit ==
    /\ StoreInit
    /\ lim = NewLimiter(default_rate)
    /\ rq = NoRequest
    /\ FetchIdle
    /\ reg \in Registries

FetchNext ==
    \/ MainGreenhouse \/ GhNextToken \/ RequestTurn \/ GhBoardName \/ GhFetchJobs
    \/ UpsertNext \/ Interrupt \/ Commit
    \/ MainLever \/ LvNextCompany \/ LvFetchJobs
    \/ MainWorkday \/ WdNextEndpoint \/ WdPost \/ WdGet
    \/ MainEnd

SpecFetch == FetchInit /\ [][FetchNext]_vars

\* C7: every HTTP attempt made for a source, whichever request it belongs
\* to, comes after a RateLimiter.wait() call made for it.
C7_EveryAttemptWaited == http.what # "none" => http.waited

\* C9: no fetch of a source ends, for fetch.py, with the failure that a
\* transport error or a 429/500/502/503/504 response is.
C9_NoTransientFailure ==
    res.out = "error" =>
        /\ res.cause # "transport"
        /\ res.status \notin {429, 500, 502, 503, 504}

\* C12: a paginated-search fetch that returns has asked the pages at offsets
\* 0, page_limit, 2 * page_limit, ..., every page before the last one was full,
\* the last one was short (or was the max_pages-th), and what it returns is the
\* records of these pages, in order.
C12_PagesInOrder ==
    (res.src = "workday" /\ res.out = "ok") =>
        /\ res.pages # <<>>
        /\ \A i \in DOMAIN res.pages :
             /\ res.pages[i].offset = (i - 1) * PageLimit
             /\ i < Len(res.pages) => res.pages[i].n = PageLimit
        /\ \/ res.pages[Len(res.pages)].n < PageLimit
           \/ Len(res.pages) = MaxPages
        /\ Len(res.posts) = (Len(res.pages) - 1) * PageLimit + res.pages[Len(res.pages)].n
        /\ res.posts = [k \in 1..Len(res.posts) |-> WdListing(k)]

\* A full first page and a short second one: two pages were asked.
C12_Witness ==
    /\ res.src = "workday" /\ res.out = "ok"
    /\ Len(res.pages) = 2 /\ Len(res.pages) < MaxPages
    /\ res.pages[1].n = PageLimit
    /\ res.pages[2].n \in 1..(PageLimit - 1)
    /\ Len(res.posts) = PageLimit + res.pages[2].n

\* main() has returned, or has ended with an exception.
SessionOver == fs.pc \in {"exit", "raised"}

\* The checkpoints an invocation can have written by now.
ThisInvocation == {LastFetch(t) : t \in 0..clock}

\* C13: a board whose job-list request was answered 304 leaves the table as it
\* was, and once the invocation is over the state file holds, for that board,
\* the time of this invocation.
C13_NotModifiedAdvancesCheckpoint ==
    \A u \in ses.unmodified :
        /\ u.same
        /\ SessionOver => ses.saved[u.token] \in ThisInvocation

\* C14: when the invocation is over, the fetch function of every configured
\* source has been called, whatever happened to the sources before it.
C14_EverySourceFetched == SessionOver => ses.tried = reg

\* C15: once the batch of a source is over, every record of it that
\* upsert_job maps to a row has its row in the table, whatever the other
\* records of the batch are.
C15_OtherRecordsPersisted ==
    (res.out = "ok" /\ fs.pc \notin {"gh_batch", "lv_batch", "wd_batch"}) =>
        \A i \in DOMAIN res.posts :
            LET m == MapOf(res.src, res.posts[i], clock)
            IN  m.out = "row" => \E r \in jobs : r.canonical_key = m.vals.canonical_key

----------------------------------------------------------------------------
(* SpecSearch: open_db with FTS_DDL (core.py), upserts into a store that has *)
(* the job_fts index and its triggers, and search_jobs (search.py)           *)

\* The unicode61 tokenizer of job_fts and the LIKE operator fold ASCII case.
FoldGlyph(c) ==
    IF c = "Dev" THEN "dev" ELSE IF c = "Ops" THEN "ops"
    ELSE IF c = "Q" THEN "q" ELSE IF c = "A" THEN "a" ELSE c

Fold(s) == [i \in DOMAIN s |-> FoldGlyph(s[i])]

\* unicode61: a character that is neither a letter nor a digit ends a token.
IsSeparator(c) == c \in {SP, "-"}

RECURSIVE TokensFrom(_, _)
TokensFrom(s, word) ==
    IF s = <<>> THEN (IF word = <<>> THEN {} ELSE {word})
    ELSE IF IsSeparator(Head(s))
    THEN (IF word = <<>> THEN {} ELSE {word}) \cup TokensFrom(Tail(s), <<>>)
    ELSE TokensFrom(Tail(s), Append(word, FoldGlyph(Head(s))))

Tokens(text) == TokensFrom(text, <<>>)

\* The terms jobs_ai and jobs_au hand to job_fts for a row: those of title,
\* description, org_name and COALESCE(location, '').
RowTerms(r) ==
    Tokens(r.title) \cup Tokens(r.description) \cup Tokens(r.org_name)
        \cup Tokens(Coalesce(r.location, <<>>))

\* What the triggers of the upsert statement do to the index.  jobs_ai adds
\* the new row's terms under its rowid.  jobs_au runs "UPDATE job_fts SET ...
\* WHERE rowid=new.id" after the row was updated: job_fts has content='jobs',
\* so FTS5 takes the terms to remove from the row as table jobs holds it, which
\* is the new row already, and then adds the new row's terms; the terms that
\* were indexed for the row before stay.
FtsTriggers(idx, tbl, v) ==
    IF NotNullViolated(v) THEN idx
    ELSE IF \E r \in tbl : r.canonical_key = v.canonical_key
    THEN LET r == CHOOSE x \in tbl : x.canonical_key = v.canonical_key
             old == UNION {e.terms : e \in {x \in idx : x.rowid = r.id}}
         IN  {e \in idx : e.rowid # r.id}
                 \cup {[rowid |-> r.id, terms |-> old \cup RowTerms(ConflictUpdate(r, v))]}
    ELSE idx \cup {[rowid |-> MaxId(tbl) + 1, terms |-> RowTerms(InsertedRow(tbl, v))]}

\* open_db(): CREATE TABLE IF NOT EXISTS jobs, then executescript(FTS_DDL),
\* which raises OperationalError, passed over, on a build of SQLite without
\* FTS5.  CREATE VIRTUAL TABLE indexes none of the rows table jobs holds.  A
\* store that has the index is opened by builds with FTS5 only.
OpenDb ==
    /\ \E fts5 \in BOOLEAN :
        /\ fts.made => fts5
        /\ fts' = [fts EXCEPT !.opened = TRUE, !.made = fts.made \/ fts5]
    /\ UNCHANGED <<storeVars, netVars, fetchVars, sr, writerVars, derivedVars>>

\* The records upserted in SpecSearch: the plain one, the same posting under
\* another title, and an older posting without location.
SearchRecords ==
    {GhBase, [GhBase EXCEPT !.title = <<"Q", "A">>],
     [GhOther EXCEPT !.location = NoLoc, !.updated_at = T1Z]}

\* greenhouse.upsert_job on an opened store, with the triggers of its statement
SearchUpsert(j) ==
    /\ fts.opened
    /\ LET m == GhMap(GhBoard, GhOrg, j, clock)
       IN  /\ UpsertEffect("greenhouse", m, GhRaw(j))
           /\ fts' = IF fts.made /\ m.out = "row"
                     THEN [fts EXCEPT !.idx = FtsTriggers(fts.idx, jobs, m.vals)]
                     ELSE fts
    /\ UNCHANGED <<clock, netVars, fetchVars, sr, writerVars, derivedVars>>

\* fts_available(conn): SELECT 1 FROM job_fts LIMIT 1 does not raise
FtsAvailable == fts.made

\* "if fts_available(conn) and q.strip()"
UsesIndex(q) == FtsAvailable /\ Strip(q) # <<>>

\* A MATCH expression with a character of the FTS5 query syntax raises
\* OperationalError; one made of words matches the rows whose index entry has
\* every word of it.
FtsSyntax(q) == \E i \in DOMAIN q : q[i] = "-"

FtsHits(q) ==
    {r \in jobs : \E e \in fts.idx : e.rowid = r.id /\ Tokens(q) \subseteq e.terms}

\* column LIKE '%q%': q occurs in the column's text, case folded; NULL LIKE
\* is not true.
Contains(text, q) ==
    \E i \in 0..(Len(text) - Len(q)) : SubSeq(text, i + 1, i + Len(q)) = q

Like(field, q) == field # NULL /\ Contains(Fold(field), Fold(q))

LikeHits(q) ==
    {r \in jobs : Like(r.title, q) \/ Like(r.description, q) \/ Like(r.org_name, q)
                      \/ Like(r.location, q)}

\* "if loc:" adds "AND location = :loc"
LocFilter(rows, loc) == IF Truthy(loc) THEN {r \in rows : r.location = loc} ELSE rows

\* TEXT values compare byte by byte: the characters of the posted_at texts, in
\* byte order.
ByteOrder == <<"+00:00", "1970-01-01T00:00:01", "1970-01-01T00:00:02", "Z">>
ByteRank(c) == CHOOSE i \in DOMAIN ByteOrder : ByteOrder[i] = c

RECURSIVE TextLess(_, _)
TextLess(a, b) ==
    IF b = <<>> THEN FALSE
    ELSE IF a = <<>> THEN TRUE
    ELSE IF Head(a) = Head(b) THEN TextLess(Tail(a), Tail(b))
    ELSE ByteRank(Head(a)) < ByteRank(Head(b))

\* ORDER BY posted_at DESC NULLS LAST, first_seen_at DESC; rows equal in both
\* come out in rowid order.
Precedes(r1, r2) ==
    IF r1.posted_at # r2.posted_at
    THEN r2.posted_at = NULL \/ (r1.posted_at # NULL /\ TextLess(r2.posted_at, r1.posted_at))
    ELSE IF r1.first_seen_at # r2.first_seen_at
    THEN r1.first_seen_at > r2.first_seen_at
    ELSE r1.id < r2.id

RECURSIVE OrderBy(_)
OrderBy(rows) ==
    IF rows = {} THEN <<>>
    ELSE LET first == CHOOSE r \in rows : \A o \in rows \ {r} : Precedes(r, o)
         IN  <<first>> \o OrderBy(rows \ {first})

\* LIMIT n: a negative n is no limit.
Limit(rows, n) == IF n < 0 THEN rows ELSE SubSeq(rows, 1, Min(n, Len(rows)))

FtsPath(q, loc, limit) == Limit(OrderBy(LocFilter(FtsHits(q), loc)), limit)
LikePath(q, loc, limit) == Limit(OrderBy(LocFilter(LikeHits(q), loc)), limit)

\* The dictionary search_jobs makes of a row
View(r) ==
    [title |-> r.title, org |-> r.org_name, location |-> r.location, url |-> r.post_url,
     posted_at |-> r.posted_at]

Views(rows) == [i \in DOMAIN rows |-> View(rows[i])]

\* The arguments of search_jobs
Queries ==
    {<<"Dev">>, <<"dev">>, <<"Ops", SP, "Dev">>, <<"A">>, <<"Dev", "-", "Ops">>, <<SP>>, <<>>}
Locs == {NULL, <<>>, <<"NYC">>}
Limits == {-1, 1, 2}

\* The calls made: every query without filter, and one query with every
\* filter and limit.
SearchArgs ==
    {[q |-> q, loc |-> NULL, limit |-> 2] : q \in Queries}
        \cup {[q |-> <<"Dev">>, loc |-> loc, limit |-> limit] : loc \in Locs, limit \in Limits}

\* search_jobs(conn, q, loc, limit)
SearchJobs ==
    /\ fts.opened
    /\ \E a \in SearchArgs :
        LET q == a.q
            loc == a.loc
            limit == a.limit
            path == IF UsesIndex(q) THEN "fts" ELSE "like"
            raises == path = "fts" /\ FtsSyntax(q)
            rows == IF raises THEN <<>>
                    ELSE IF path = "fts" THEN FtsPath(q, loc, limit)
                    ELSE LikePath(q, loc, limit)
        IN  sr' = [q |-> q, loc |-> loc, limit |-> limit, path |-> path,
                   available |-> FtsAvailable,
                   out |-> IF raises THEN "raise" ELSE "rows",
                   rows |-> rows, views |-> Views(rows)]
    /\ UNCHANGED <<storeVars, netVars, fetchVars, fts, writerVars, derivedVars>>

SearchNext ==
    \/ OpenDb
    \/ \E j \in SearchRecords : SearchUpsert(j)
    \/ SearchJobs
    \/ Tick

SpecSearch == Init /\ [][SearchNext]_vars

\* C21: when an invocation was stopped inside a batch after upsert_job had
\* returned for its first k records, the rows of these k records are in the
\* table.
C21_RecordsBeforeAbortPersisted ==
    fs.pc = "raised" =>
        \A i \in 1..ses.upto :
            LET m == MapOf(res.src, res.posts[i], clock)
            IN  m.out = "row" => \E r \in jobs : r.canonical_key = m.vals.canonical_key

\* C22: when the invocation is over, the state file holds, for every board
\* whose job list was fetched in it, the time of this invocation, and for every
\* other board what it held before.
C22_SavedCheckpointFollowsFetch ==
    SessionOver =>
        \A t \in DOMAIN ses.saved :
            IF t \in ses.fetched THEN ses.saved[t] \in ThisInvocation
            ELSE ses.saved[t] = ses.prior[t]

\* "if __name__ == '__main__': main()": the interpreter exits with 0 when
\* main() returns and with 1 when an exception leaves it.
ExitStatus == IF fs.pc = "exit" THEN 0 ELSE 1

\* C23: an invocation that is over ended with a non-zero status and without a
\* request when the registry names no source, and with status zero when it
\* names one.
C23_ExitStatusBySources ==
    SessionOver =>
        IF reg = NoSources
        THEN ExitStatus # 0 /\ http = NoAttempt
        ELSE ExitStatus = 0

\* C26: a paginated-search fetch sends at most max_pages POSTs, a GET only
\* right after the POST of the same page, and when the max_pages-th page has
\* come back it returns the records accumulated.
C26_AtMostMaxPagesRequests ==
    /\ fs.posted <= MaxPages
    /\ (fs.sent # <<>> /\ fs.sent[Len(fs.sent)].what = "wd_get") =>
           /\ Len(fs.sent) = 2
           /\ fs.sent[1].what = "wd_post"
           /\ fs.sent[1].query.offset = fs.sent[2].query.offset
    /\ (/\ fs.posted = MaxPages
        /\ fs.pc \notin {"wd_post", "wd_get"}
        /\ fs.sent[Len(fs.sent)].status \in 1..399)
       => (res.src = "workday" /\ res.out = "ok" /\ Len(res.pages) = MaxPages)

\* Every page was full: max_pages pages were asked and their records returned.
C26_Witness ==
    /\ fs.pc = "wd_batch"
    /\ fs.posted = MaxPages
    /\ res.out = "ok" /\ Len(res.pages) = MaxPages
    /\ \A i \in DOMAIN res.pages : res.pages[i].n = PageLimit
    /\ Len(res.posts) = MaxPages * PageLimit

C28_NeverHeldByAnotherSource ==
    http.held_by # NoOne => http.held_by = http.src

\* C30: while the latest paginated-search fetch is one that ended with an
\* error, no upsert_job call has been made for the endpoint the loop is at,
\* main() has not ended with an exception, and when it has returned every
\* endpoint of the registry was fetched.
C30_FailedSearchStoresNothing ==
    (res.src = "workday" /\ res.out = "error") =>
        /\ ses.calls = 0
        /\ ses.todo = <<>>
        /\ fs.pc # "raised"
        /\ fs.pc \in {"main_end", "exit"} => ses.tried.workday = reg.workday

\* The second page of an endpoint was answered with an error status after a
\* full first page, and the fetch of the next endpoint has begun.
C30_Witness ==
    /\ res.src = "workday" /\ res.out = "error" /\ res.cause = "status"
    /\ Len(res.pages) >= 1 /\ res.pages[1].n = PageLimit
    /\ ses.tried.workday = 2
    /\ fs.pc = "wd_post"
    /\ \A r \in jobs : r.canonical_key # WdMap(WdEndpoint, WdListing(1), clock).vals.canonical_key

\* SpecCheckpoint: fetch_greenhouse alone, for a registry of boards only,
\* while the clock runs: time passes between any two of its steps (a request
\* waits for its answer, the limiter and the backoff sleep, a batch is
\* upserted).
CheckpointInit ==
    /\ FetchInit
    /\ reg.greenhouse > 0 /\ reg.lever = 0 /\ reg.workday = 0

CheckpointNext ==
    \/ MainGreenhouse \/ GhNextToken \/ RequestTurn \/ GhBoardName \/ GhFetchJobs
    \/ UpsertNext \/ Interrupt \/ Commit
    \/ Tick

SpecCheckpoint == CheckpointInit /\ [][CheckpointNext]_vars

\* C31: the checkpoint fetch_greenhouse has set for the board it has just
\* fetched is not later than the time the board's job-list request was sent.
C31_CheckpointNotAfterRequest ==
    (fs.pc = "gh_next" /\ ses.token # 0 /\ ses.token \in ses.fetched) =>
        ses.state[ses.token][2] <= ses.sent_at

\* C16: whatever the query text, search_jobs takes the LIKE path exactly when
\* job_fts is not available.
C16_PathByAvailabilityOnly ==
    sr.path # "none" => (sr.path = "like" <=> ~sr.available)

\* C17: on a store that has the index, for every query made of words only
\* (and every location filter and limit) the indexed path and the LIKE path
\* return the same views in the same order.
C17_PathsAgree ==
    fts.made =>
        \A q \in Queries, loc \in Locs, limit \in Limits :
            (~FtsSyntax(q) /\ Strip(q) # <<>>) =>
                Views(FtsPath(q, loc, limit)) = Views(LikePath(q, loc, limit))

\* The query's words, or the query text, occur in the row as it was when the
\* search ran.
RowMatches(path, q, r) ==
    IF path = "fts" THEN Tokens(q) \subseteq RowTerms(r)
    ELSE Like(r.title, q) \/ Like(r.description, q) \/ Like(r.org_name, q)
             \/ Like(r.location, q)

\* C18: on both paths every row returned matches the query and has the
\* location asked for; the rows are in posted_at order, newest first and null
\* last, then first_seen_at, newest first; and a limit of n gives at most n rows.
C18_ResultIsMatchingOrderedCapped ==
    sr.out = "rows" =>
        /\ \A i \in DOMAIN sr.rows :
             /\ RowMatches(sr.path, sr.q, sr.rows[i])
             /\ Truthy(sr.loc) => sr.rows[i].location = sr.loc
        /\ \A i, k \in DOMAIN sr.rows : i < k => Precedes(sr.rows[i], sr.rows[k])
        /\ sr.limit >= 0 => Len(sr.rows) <= sr.limit

\* C19: in a store that has the index, every row has one entry in it, with
\* the terms of the row's current title, description, organization and
\* location, and there is no other entry.
C19_IndexInStep ==
    fts.made =>
        /\ \A r \in jobs : \E e \in fts.idx : e.rowid = r.id /\ e.terms = RowTerms(r)
        /\ \A e \in fts.idx : \E r \in jobs : r.id = e.rowid /\ e.terms = RowTerms(r)

----------------------------------------------------------------------------
(* SpecWriters: two invocations of fetch.py at once on one store, the first  *)
(* inside fetch_greenhouse's "with conn:", the second inside fetch_lever's,  *)
(* each at a record that has the URL the other's has                         *)

WriterSrc(w) == IF w = 1 THEN "greenhouse" ELSE "lever"

WriterRecords(w) ==
    IF w = 1 THEN {GhBase, [GhBase EXCEPT !.title = <<"Q", "A">>]}
    ELSE {LvBase, [LvBase EXCEPT !.descriptionPlain = <<"d2">>]}

\* What upsert_job of writer w binds to its statement
WriterMap(w) == MapOf(WriterSrc(w), wr.of[w].rec, wr.of[w].now)

\* upsert_job is entered: now = datetime.now(timezone.utc), and the values
\* are made of the record.
WrCall(w) ==
    /\ wr.of[w].pc = "idle"
    /\ \E rec \in WriterRecords(w) :
        wr' = [wr EXCEPT !.of[w] = [pc |-> "called", rec |-> rec, now |-> clock,
                                    dropped |-> FALSE]]
    /\ UNCHANGED <<storeVars, netVars, fetchVars, searchVars, derivedVars>>

\* conn.execute(INSERT ...) of a connection that holds the write lock or finds
\* it free: the transaction begins, the connection takes the write lock and the
\* statement runs.  While another connection holds the lock the statement
\* waits.
WrExecute(w) ==
    /\ wr.of[w].pc = "called"
    /\ wr.lock \in {0, w}
    /\ wr' = [wr EXCEPT !.lock = w, !.of[w].pc = "in_txn"]
    /\ jobs' = SqlUpsert(jobs, WriterMap(w).vals)
    /\ UNCHANGED <<clock, upserted, last, netVars, fetchVars, searchVars, derivedVars>>

\* The statement has waited for the lock as long as the connection's busy
\* timeout (sqlite3.connect's default): it raises OperationalError "database
\* is locked", which upsert_job catches as a DatabaseError; it prints a warning
\* and returns.
WrLocked(w) ==
    /\ wr.of[w].pc = "called"
    /\ wr.lock \notin {0, w}
    /\ wr' = [wr EXCEPT !.of[w].pc = "in_txn", !.of[w].dropped = TRUE]
    /\ UNCHANGED <<storeVars, netVars, fetchVars, searchVars, derivedVars>>

\* The end of "with conn:": commit, which releases the write lock.
WrCommit(w) ==
    /\ wr.of[w].pc = "in_txn"
    /\ wr' = [wr EXCEPT !.lock = IF wr.lock = w THEN 0 ELSE wr.lock, !.of[w].pc = "done"]
    /\ UNCHANGED <<storeVars, netVars, fetchVars, searchVars, derivedVars>>

WritersNext ==
    \/ \E w \in Writers : WrCall(w)
    \/ \E w \in Writers : WrExecute(w)
    \/ \E w \in Writers : WrLocked(w)
    \/ \E w \in Writers : WrCommit(w)
    \/ Tick

SpecWriters == Init /\ [][WritersNext]_vars

\* The table after the statement of writer a, then that of writer b, on the
\* empty table.
SerialOutcome(a, b) == SqlUpsert(SqlUpsert({}, WriterMap(a).vals), WriterMap(b).vals)

C29_PostedAtFromUpdate ==
    (last.out = "row" /\ last.from_update # NULL /\ last.from_create # NULL) =>
        \E r \in jobs : /\ r.canonical_key = last.vals.canonical_key
                         /\ r.posted_at = last.from_update

-----------------------------------------------------------------------------
(* SpecNormalize: the "optional normalization" of workday.upsert_job.  The   *)
(* package holds normalize_fields in normalizer.py, whose header names it    *)
(* job_agent/normalize.py; upsert_job imports it from .normalize and the     *)
(* DDL of core.py has no derived column, so the UPDATE runs only in an       *)
(* installation that has the module under that name and a jobs table with    *)
(* the columns ("if you created normalize.py").  nz.installed says which.    *)

\* str.lower() on the glyphs used here
NzLower(c) ==
    IF c = "Senior" THEN "senior" ELSE IF c = "Remote" THEN "remote"
    ELSE IF c = "Remotely" THEN "remotely" ELSE c

\* LEVEL_PATTERNS, WORK_TYPE_PATTERNS, EMPLOYMENT_PATTERNS: the words each
\* pattern matches, and its value.
LEVEL_PATTERNS ==
    <<[words |-> {"intern", "internship", "co-op", "coop"}, val |-> <<"intern">>],
      [words |-> {"entry-level", "entrylevel", "junior", "jr", "jr."},
       val |-> <<"junior">>],
      [words |-> {"senior", "sr", "sr."}, val |-> <<"senior">>],
      [words |-> {"principal", "staff", "lead"}, val |-> <<"principal">>],
      [words |-> {"manager", "managing"}, val |-> <<"manager">>],
      [words |-> {"director"}, val |-> <<"director">>]>>
WORK_TYPE_PATTERNS ==
    <<[words |-> {"on-site", "onsite"}, val |-> <<"onsite">>],
      [words |-> {"hybrid"}, val |-> <<"hybrid">>],
      [words |-> {"remote"}, val |-> <<"remote">>]>>
EMPLOYMENT_PATTERNS ==
    <<[words |-> {"full-time", "fulltime"}, val |-> <<"full-time">>],
      [words |-> {"part-time", "parttime"}, val |-> <<"part-time">>],
      [words |-> {"contract", "contractor", "temporary", "temp", "fixed-term",
                  "fixedterm"}, val |-> <<"contract">>]>>

\* Titles and locations of one posting as its endpoint lists it over time.
NzTitles == {<<"Senior", SP, "QA", SP, "full-time">>, <<"QA">>}
NzLocations ==
    {<<"Remote", ",", SP, "NY", ",", SP, "US">>, <<"Boston">>, <<"hybrid">>, NULL}

\* re.search(r"\\b(word|...)\\b", text.lower()): text holds one of the words.
HasWord(text, words) ==
    text # NULL /\ \E i \in DOMAIN text : NzLower(text[i]) \in words

\* The first pattern of the list that matches, else None.
RECURSIVE FirstMatch(_, _)
FirstMatch(text, patterns) ==
    IF patterns = <<>> THEN NULL
    ELSE IF HasWord(text, Head(patterns).words) THEN Head(patterns).val
    ELSE FirstMatch(text, Tail(patterns))

infer_level(text) == FirstMatch(text, LEVEL_PATTERNS)

\* blob = " ".join([text or "", location_text or ""]).lower(); the test that
\* follows the patterns ("remote" in location_text.lower()) finds the word
\* inside a longer one as well.
infer_work_type(text, location_text) ==
    LET blob == PyOr(text, <<>>) \o <<SP>> \o PyOr(location_text, <<>>)
        val == FirstMatch(blob, WORK_TYPE_PATTERNS)
    IN  IF val # NULL THEN val
        ELSE IF Truthy(location_text)
                /\ \E i \in DOMAIN location_text :
                       NzLower(location_text[i]) \in {"remote", "remotely"}
        THEN <<"remote">>
        ELSE NULL

infer_employment(text) == FirstMatch(text, EMPLOYMENT_PATTERNS)

\* re.split / str.split: the pieces of s between the glyphs of seps.
RECURSIVE SplitOn(_, _, _)
SplitOn(s, seps, piece) ==
    IF s = <<>> THEN <<piece>>
    ELSE IF Head(s) \in seps THEN <<piece>> \o SplitOn(Tail(s), seps, <<>>)
    ELSE SplitOn(Tail(s), seps, Append(piece, Head(s)))

\* split_location(loc): city, state, country of the part before the first
\* of ; / | -, and remote = 1 when loc holds the word "remote", else None.
split_location(loc) ==
    IF ~Truthy(loc)
    THEN [city |-> NULL, state |-> NULL, country |-> NULL, remote |-> NULL]
    ELSE LET parts == SplitOn(loc, {";", "/", "|", "-"}, <<>>)
             first == Strip(parts[1])
             split == SplitOn(first, {","}, <<>>)
             frags == [i \in DOMAIN split |-> Strip(split[i])]
         IN  [city |-> PyOr(frags[1], NULL),
              state |-> IF Len(frags) >= 2 THEN PyOr(frags[2], NULL) ELSE NULL,
              country |-> IF Len(frags) >= 3 THEN PyOr(frags[3], NULL) ELSE NULL,
              remote |-> IF HasWord(loc, {"remote"}) THEN <<"num", 1>> ELSE NULL]

normalize_fields(title, desc, location) ==
    LET where == split_location(location)
    IN  [role_level |-> infer_level(title \o <<SP>> \o desc),
         work_type |-> infer_work_type(desc, location),
         employment_type |-> infer_employment(title \o <<SP>> \o desc),
         city |-> where.city, state |-> where.state, country |-> where.country,
         remote |-> where.remote]

\* "UPDATE jobs SET role_level=?, work_type=?, employment_type=?, city=?,
\* state=?, country=?, remote=COALESCE(remote, ?) WHERE canonical_key=?"
UpdateDerived(row, norm) == [norm EXCEPT !.remote = Coalesce(row.remote, norm.remote)]

\* The row of the INSERT, before any UPDATE: every derived column is NULL.
NoNorm ==
    [role_level |-> NULL, work_type |-> NULL, employment_type |-> NULL,
     city |-> NULL, state |-> NULL, country |-> NULL, remote |-> NULL]

\* workday.upsert_job(conn, endpoint_label, rec) of a record of one posting:
\* the INSERT ... ON CONFLICT, then the import and the UPDATE inside
\* "try: ... except Exception: pass".
WdNormalize(rec) ==
    LET m == WdMap(WdEndpoint, rec, clock)
        before == IF nz.row = <<>> THEN NoNorm ELSE nz.row
    IN  /\ m.out = "row"
        /\ UpsertEffect("workday", m, WdRaw(rec))
        /\ nz' = [nz EXCEPT !.was = nz.row,
                            !.row = IF nz.installed
                                    THEN UpdateDerived(before,
                                             normalize_fields(m.vals.title, <<>>,
                                                 IF m.vals.location = NULL THEN <<>>
                                                 ELSE m.vals.location))
                                    ELSE nz.row]
        /\ UNCHANGED <<clock, netVars, fetchVars, searchVars, writerVars>>

NzRecords ==
    {[WdBase EXCEPT !.title = t, !.locationsText = l] :
        t \in NzTitles, l \in NzLocations}

NormalizeInit ==
    /\ StoreInit
    /\ lim = NewLimiter(default_rate)
    /\ rq = NoRequest
    /\ fs = AtMain /\ http = NoAttempt /\ res = NoResult /\ ses = NoSession
    /\ fts = NoStore /\ sr = NoSearch /\ wr = NoWriters
    /\ reg = NoSources
    /\ nz \in {[NoDerived EXCEPT !.installed = b] : b \in BOOLEAN}

NormalizeNext ==
    \/ \E rec \in NzRecords : WdNormalize(rec)
    \/ Tick

SpecNormalize == NormalizeInit /\ [][NormalizeNext]_vars

=============================================================================
